---- MODULE Spec2Model ----
(***************************************************************************)
(* Model of MotionDevice (src/motionblinds_ble/device.py): the connection  *)
(* lifecycle of one blind on one asyncio event loop.                       *)
(*                                                                         *)
(* Coroutines are processes.  A process runs from one await that really    *)
(* suspends to the next one as a single step; the event loop runs the      *)
(* process at the head of its FIFO ready queue.  The transport (bleak),    *)
(* the callers (Home Assistant service calls) and the timer are the        *)
(* environment: between two iterations of the loop they complete pending   *)
(* I/O, issue calls and fire the timer, and the coroutine concerned runs   *)
(* to its next await.                                                      *)
(*                                                                         *)
(* The operators that model the code take the device state as a record s   *)
(* (one field per variable below) and return the state after the code ran, *)
(* or a record [s, out] when the code returns a value: out is "true",      *)
(* "false", "none" (Python None), "slots" / "error" (an exception that     *)
(* propagates) or "suspended" (the coroutine is waiting).                  *)
(***************************************************************************)
EXTENDS Integers, Sequences, FiniteSets, TLC

\* Bounds of the model.
MaxCallers == 3
MaxTasks == 2
\* device.py imports this setting from const.py; the value is a parameter here.
SETTING_MAX_COMMAND_ATTEMPTS == 2

\* _connection_task / _current_bleak_client / _last_connection_caller_time = None
None == 0

Tasks == 1..MaxTasks
Callers == (MaxTasks + 1)..(MaxTasks + MaxCallers)
TimerProc == MaxTasks + MaxCallers + 1
Procs == 1..TimerProc

\* MotionConnectionType
DISCONNECTED == "disconnected"
CONNECTING == "connecting"
CONNECTED == "connected"

VARIABLES
    connection_type,             \* _connection_type
    reported,                    \* the value last given to _connection_callback
    current_bleak_client,        \* _current_bleak_client: None or a session id
    connection_task,             \* _connection_task: None or a task id
    last_connection_caller_time, \* _last_connection_caller_time
    disconnect_timer,            \* _disconnect_timer is not None
    timer_pending,               \* the scheduled timer is neither cancelled nor fired
    link,                        \* BleakClient.is_connected of each session
    disconnected_callback,       \* sessions with _disconnect_callback registered
    proc,                        \* the coroutines: position and locals
    result,                      \* outcome of each _connect task
    waiters,                     \* coroutines suspended on each task, in join order
    must_cancel,                 \* tasks with a cancellation to deliver
    ready,                       \* the event loop's FIFO ready queue
    batch,                       \* handles left to run in this loop iteration
    last_admitted,               \* history: the coroutine admitted most recently
    last_joiner,                 \* history: the latest coroutine to await each task
    phase,                       \* history: how far each session's initialization got
    disconnect_cancelled,        \* history: tasks that disconnect() cancelled in flight
    last_write,                  \* history: the latest write_gatt_char call
    scenario,                    \* history: connection callbacks of a lone command
    tz,                          \* MotionCrypt.tz is set
    told_twice,                  \* history: this step told Disconnected after Disconnected
    lone,                        \* history: the caller of the command made alone
    now,                         \* the clock, in seconds
    disconnect_time,             \* _disconnect_time: None or a deadline
    timer_deadline,              \* when the timer held in _disconnect_timer fires
    cover,                       \* the entity whose callbacks are registered
    calibration_type,            \* PositionCalibrationBlind._calibration_type
    running_type,                \* GenericBlind._running_type
    last_call,                   \* history: the latest call on the timer
    pending_timers,              \* the timers scheduled, not cancelled, not fired
    click_clock,                 \* the clock of the cover entity, in milliseconds
    last_stop_click_time,        \* GenericBlind._last_stop_click_time
    stop_request,                \* the calls of async_stop_cover
    issued,                      \* history: the device commands called, in order
    moment,                      \* datetime.now(MotionCrypt.tz)
    time_hex,                    \* what get_time() gave for it
    conversion,                  \* the angle/percent conversions made last
    entity,                      \* the fields of the cover entity (GenericBlind)
    entity_command,              \* the motion command of the entity in progress
    entity_call                  \* history: the latest callback into the entity

vars == <<connection_type, reported, current_bleak_client, connection_task,
          last_connection_caller_time, disconnect_timer, timer_pending,
          link, disconnected_callback, proc, result, waiters, must_cancel,
          ready, batch, last_admitted, last_joiner, phase, disconnect_cancelled,
          last_write, scenario, tz, told_twice, lone>>

\* The variables of the deadline of the idle timer and of the cover entity.
tvars == <<now, disconnect_time, timer_deadline, cover, calibration_type,
           running_type, last_call, pending_timers>>

\* The variables of the stop button of the cover entity.
svars == <<click_clock, last_stop_click_time, stop_request, issued>>

\* The variables of the timestamp and of the conversions.
nvars == <<moment, time_hex, conversion>>

\* The variables of the cover entity.
evars == <<entity, entity_command, entity_call>>

\* The variables of the other parts of the integration.
xvars == <<nvars, evars>>

\* The stop requests, taken in order.
MaxStops == 3
Stops == 1..MaxStops

\* The clock of the stop button starts at ClickStep and runs to MaxClick in
\* steps of ClickStep.
ClickStep == 250
MaxClick == 1500

\* History of a coroutine's await of the shared task: how the task ended, whether
\* the coroutine was then the latest one admitted (of all, and of those that
\* awaited this task), and whether the task had got its session.
NoResolved == [result |-> "none", latest |-> FALSE, group_latest |-> FALSE,
               established |-> FALSE, cancelled |-> FALSE]

IdleProc == [pc |-> "idle", op |-> "none", cmd |-> "none", this_time |-> None,
             joined |-> None, tries |-> 0, io |-> None, age |-> 0,
             built |-> None, writes |-> 0, cut |-> 0,
             arg |-> 0, prefix |-> <<>>, raised |-> "none",
             conn |-> "none", wrote |-> FALSE, ret |-> "none",
             refreshed |-> FALSE, resolved |-> NoResolved]

\* A caller whose call has returned.
GoneProc == [IdleProc EXCEPT !.pc = "gone"]

NoWrite == [cmd |-> "none", by |-> None, state |-> "none", phase |-> "none"]

NoScenario == [caller |-> None, log |-> <<>>]

\* The timer as the latest call found it.
NoTimer == [disconnect_timer |-> FALSE, disconnect_time |-> None,
            timer_pending |-> FALSE, timer_deadline |-> None,
            pending_timers |-> 0]

NoCall == [op |-> "none", timeout |-> None, force |-> FALSE, kind |-> <<>>,
           up |-> FALSE, calibration_type |-> "none", running_type |-> "none",
           malformed |-> FALSE, branch |-> "none", callback |-> "none",
           raised |-> "none", before |-> NoTimer]

\* A coroutine object is dropped once it has ended and nothing refers to it: a
\* caller right after its call returned, a _connect task (and the session it
\* opened) once it is neither the shared handle, nor awaited, nor a live or held
\* session.  The slot is then free for a later task.
Collectable(t) ==
    /\ proc[t].pc = "done"
    /\ connection_task # t
    /\ current_bleak_client # t
    /\ link[t] # "up"
    /\ \A p \in Procs : /\ ~(proc[p].pc = "join" /\ proc[p].joined = t)
                        /\ ~(proc[p].pc \in {"write", "close"} /\ proc[p].io = t)

\* The device state at the start of a step.  The timestamps are only compared
\* for equality with the latest one: while no coroutine holds one, the latest
\* is renumbered 1.
State == [connection_type |-> connection_type,
          reported |-> reported,
          current_bleak_client |-> current_bleak_client,
          connection_task |-> connection_task,
          last_connection_caller_time |->
              IF last_connection_caller_time # None
                 /\ \A p \in Procs : proc[p].pc # "join"
              THEN 1 ELSE last_connection_caller_time,
          disconnect_timer |-> disconnect_timer,
          timer_pending |-> timer_pending,
          link |-> [k \in Tasks |-> IF Collectable(k) THEN "none" ELSE link[k]],
          disconnected_callback |->
              [k \in Tasks |-> IF Collectable(k) THEN FALSE ELSE disconnected_callback[k]],
          proc |-> [p \in Procs |->
                       IF p \in Callers /\ proc[p].pc = "done" THEN GoneProc
                       ELSE IF p = TimerProc /\ proc[p].pc = "done" THEN IdleProc
                       ELSE IF p \in Tasks /\ Collectable(p) THEN IdleProc
                       ELSE proc[p]],
          result |-> [t \in Tasks |-> IF Collectable(t) THEN "none" ELSE result[t]],
          waiters |-> waiters,
          must_cancel |-> must_cancel,
          ready |-> ready,
          batch |-> batch,
          last_admitted |-> last_admitted,
          last_joiner |-> [k \in Tasks |-> IF Collectable(k) THEN None ELSE last_joiner[k]],
          phase |-> [k \in Tasks |-> IF Collectable(k) THEN "none" ELSE phase[k]],
          disconnect_cancelled |->
              [k \in Tasks |-> IF Collectable(k) THEN FALSE ELSE disconnect_cancelled[k]],
          last_write |-> NoWrite,
          scenario |-> scenario,
          tz |-> tz,
          twice |-> FALSE,
          lone |-> lone,
          draining |-> FALSE,
          exhausted |-> FALSE]

\* An operation of the transport that is begun in one iteration of the loop
\* completes in a later one, and the coroutine that awaits it is then scheduled
\* behind the handles that are ready: it resumes after the handles of the next
\* two iterations.  proc[p].age counts the iterations still to pass.
BeginIO(s, p, pc) ==
    [s EXCEPT !.proc[p].pc = pc, !.proc[p].age = IF s.draining THEN 3 ELSE 2]

Becomes(s0) ==
    LET iterated == s0.draining /\ s0.batch = 0
        s == [s0 EXCEPT !.proc = [p \in Procs |->
                  [s0.proc[p] EXCEPT !.age = IF s0.ready = <<>> \/ @ = 0 THEN 0
                                             ELSE IF iterated THEN @ - 1 ELSE @]]]
    IN
    /\ ~s.exhausted
    /\ connection_type' = s.connection_type
    /\ reported' = s.reported
    /\ current_bleak_client' = s.current_bleak_client
    /\ connection_task' = s.connection_task
    /\ last_connection_caller_time' = s.last_connection_caller_time
    /\ disconnect_timer' = s.disconnect_timer
    /\ timer_pending' = s.timer_pending
    /\ link' = s.link
    /\ disconnected_callback' = s.disconnected_callback
    /\ proc' = s.proc
    /\ result' = s.result
    /\ waiters' = s.waiters
    /\ must_cancel' = s.must_cancel
    /\ ready' = s.ready
    /\ batch' = s.batch
    /\ last_admitted' = s.last_admitted
    /\ last_joiner' = s.last_joiner
    /\ phase' = s.phase
    /\ disconnect_cancelled' = s.disconnect_cancelled
    /\ last_write' = s.last_write
    /\ scenario' = s.scenario
    /\ tz' = s.tz
    /\ told_twice' = s.twice
    /\ lone' = s.lone
    /\ UNCHANGED <<tvars, svars, xvars>>

Device ==
    /\ connection_type = DISCONNECTED
    /\ reported = "none"
    /\ current_bleak_client = None
    /\ connection_task = None
    /\ last_connection_caller_time = None
    /\ disconnect_timer = FALSE
    /\ timer_pending = FALSE
    /\ link = [k \in Tasks |-> "none"]
    /\ disconnected_callback = [k \in Tasks |-> FALSE]
    /\ proc = [p \in Procs |-> IdleProc]
    /\ result = [t \in Tasks |-> "none"]
    /\ waiters = [t \in Tasks |-> <<>>]
    /\ must_cancel = [t \in Tasks |-> FALSE]
    /\ ready = <<>>
    /\ batch = 0
    /\ last_admitted = None
    /\ last_joiner = [k \in Tasks |-> None]
    /\ phase = [k \in Tasks |-> "none"]
    /\ disconnect_cancelled = [k \in Tasks |-> FALSE]
    /\ last_write = NoWrite
    /\ scenario = NoScenario
    /\ told_twice = FALSE
    /\ lone = None
    /\ now = 0
    /\ disconnect_time = None
    /\ timer_deadline = None
    /\ cover = "none"
    /\ calibration_type = "none"
    /\ running_type = "none"
    /\ last_call = NoCall
    /\ pending_timers = 0
    /\ click_clock = ClickStep
    /\ last_stop_click_time = None
    /\ stop_request = [r \in Stops |-> [pc |-> "idle", time |-> None]]
    /\ issued = <<>>

\* No timestamp asked for and no conversion made.
NoMoment == [year |-> 0, month |-> 0, day |-> 0, hour |-> 0, minute |-> 0,
             second |-> 0, microsecond |-> 0]

NoTime == [raised |-> "none", value |-> <<>>]

NoConversion == [of |-> "none", from |-> None, to |-> None, back |-> None]

\* None in a field that holds a number.
NoValue == -1

\* MotionRunningType; the class default of _running_type is None.
OPENING == "opening"
CLOSING == "closing"
STILL == "still"

\* GenericBlind after async_added_to_hass (cover.py, lines 139-192): the
\* fields at their defaults, no sensor registered yet.
NewEntity == [connection_type |-> DISCONNECTED,
              running_type |-> "none",
              is_opening |-> "none", is_closing |-> "none", is_closed |-> "none",
              current_cover_position |-> NoValue,
              current_cover_tilt_position |-> NoValue,
              use_status_position_update_ui |-> FALSE,
              battery_callback |-> FALSE, speed_callback |-> FALSE,
              battery |-> NoValue, speed |-> NoValue]

NoEntityCommand == [pc |-> "idle", func |-> "none", res |-> "none"]

NoEntityCall == [op |-> "none", connection_type |-> "none", before |-> NewEntity]

Constructed ==
    /\ Device
    /\ entity = NewEntity
    /\ entity_command = NoEntityCommand
    /\ entity_call = NoEntityCall
    /\ moment = NoMoment
    /\ time_hex = NoTime
    /\ conversion = NoConversion

\* The state in which the integration has set the timezone of MotionCrypt.
Init == Constructed /\ tz = TRUE

----------------------------------------------------------------------------
\* The event loop.

InReady(s, p) == \E i \in DOMAIN s.ready : s.ready[i] = p

Enqueue(s, p) == [s EXCEPT !.ready = Append(@, p)]

Suspended(s, p) == [s |-> s, out |-> "suspended"]

Returns(s, v) == [s |-> s, out |-> v]

IsException(out) == out \in {"slots", "error"}

\* Task.cancel(): a task that is done ignores it; a task waiting on another
\* task passes it on and is woken when that task ends; otherwise the awaited
\* future is cancelled and the task is scheduled to receive CancelledError.
RECURSIVE Cancel(_, _)
Cancel(s, t) ==
    IF s.result[t] # "none" THEN s
    ELSE LET s1 == [s EXCEPT !.must_cancel[t] = TRUE]
         IN  IF s.proc[t].pc = "join" /\ ~InReady(s, t)
             THEN Cancel(s1, s.proc[t].joined)
             ELSE IF InReady(s1, t) THEN s1 ELSE Enqueue(s1, t)

\* A task ends: its result is set and the coroutines awaiting it are scheduled.
Finish(s, t, res) ==
    [s EXCEPT !.result[t] = res,
              !.proc[t] = [IdleProc EXCEPT !.pc = "done", !.ret = res],
              !.must_cancel[t] = FALSE,
              !.ready = @ \o s.waiters[t],
              !.waiters[t] = <<>>]

----------------------------------------------------------------------------
\* MotionDevice

set_connection(s, connection_type_) ==
    [s EXCEPT !.connection_type = connection_type_,
              !.reported = connection_type_,
              !.twice = @ \/ (s.reported = DISCONNECTED
                              /\ connection_type_ = DISCONNECTED),
              !.scenario = IF @.caller # None
                           THEN [@ EXCEPT !.log = Append(@, connection_type_)]
                           ELSE @]

\* _cancel_disconnect_timer with no effect.
cancel_nothing(s) == s

cancel_disconnect_timer(s) ==
    IF s.disconnect_timer THEN [s EXCEPT !.timer_pending = FALSE] ELSE s

\* Every refresh of this model uses the default timeout, so the scheduled
\* deadline is never later than the new one and the early return is not taken.
refresh_disconnect_timer(s) ==
    [cancel_disconnect_timer(s) EXCEPT
        !.disconnect_timer = TRUE,
        !.timer_pending = TRUE,
        !.proc = [p \in Procs |->
                     IF @[p].pc = "close" THEN [@[p] EXCEPT !.refreshed = TRUE]
                     ELSE @[p]]]

is_connected(s) ==
    /\ s.current_bleak_client # None
    /\ s.link[s.current_bleak_client] = "up"

\* A clock that stands still: a call reads the value the call before it read.
time_stalled(s) ==
    IF s.last_connection_caller_time = None THEN 1 ELSE s.last_connection_caller_time

\* time_ns(): later than every value read before.  Its only reader stores each
\* value in _last_connection_caller_time, which so holds the latest one.
time_ns(s) == s.last_connection_caller_time + 1

FreeTasks(s) == {t \in Tasks : s.proc[t].pc = "idle"}

\* create_task(self._connect())
create_task(s) ==
    IF FreeTasks(s) = {} THEN [s EXCEPT !.exhausted = TRUE]
    ELSE LET t == CHOOSE x \in FreeTasks(s) : \A y \in FreeTasks(s) : x <= y
         IN  [s EXCEPT !.connection_task = t,
                       !.proc[t] = [IdleProc EXCEPT !.pc = "start", !.op = "_connect"],
                       !.ready = Append(@, t)]

\* _connect_if_not_connecting from the point where `await self._connection_task`
\* yields its outcome (lines 236-255).
after_await_connection_task(s0, p) ==
    LET t == s0.proc[p].joined
        res == s0.result[t]
        s == [s0 EXCEPT !.proc[p].resolved =
                  [result |-> res,
                   latest |-> s0.last_admitted = p,
                   group_latest |-> s0.last_joiner[t] = p,
                   established |-> s0.phase[t] # "none",
                   cancelled |-> s0.disconnect_cancelled[t]]]
    IN  IF p \in Tasks /\ s.must_cancel[p]
        THEN Returns(set_connection([s EXCEPT !.must_cancel[p] = FALSE], DISCONNECTED),
                     "false")
        ELSE IF t = p THEN Returns(s, "error")
        ELSE IF res = "false" THEN Returns(s, "false")
        ELSE IF res = "slots" THEN Returns(set_connection(s, DISCONNECTED), "slots")
        ELSE IF res = "cancelled" THEN Returns(set_connection(s, DISCONNECTED), "false")
        ELSE IF res = "error" THEN Returns(s, "error")
        ELSE LET s1 == [s EXCEPT !.connection_task = None]
                 is_last_caller == s1.last_connection_caller_time = s1.proc[p].this_time
             IN  IF is_last_caller
                 THEN Returns(refresh_disconnect_timer(s1), "true")
                 ELSE Returns(s1, "false")

\* _connect_if_not_connecting up to the await (lines 220-236).
connect_if_not_connecting(s, p) ==
    LET this_connection_caller_time == time_ns(s)
        s1 == [s EXCEPT !.proc[p].this_time = this_connection_caller_time,
                        !.last_admitted = p,
                        !.last_connection_caller_time = this_connection_caller_time]
        s2 == IF s1.connection_task = None THEN create_task(s1) ELSE s1
        t == s2.connection_task
        s3 == [s2 EXCEPT !.proc[p].joined = t, !.proc[p].pc = "join",
                         !.last_joiner[t] = p]
    IN  IF s2.exhausted THEN Suspended(s2, p)
        ELSE IF t = p
        THEN Suspended(Enqueue(s3, p), p)
        ELSE IF s3.result[t] # "none" THEN after_await_connection_task(s3, p)
        ELSE Suspended([s3 EXCEPT !.waiters[t] = Append(@, p)], p)

connect(s, p) ==
    IF ~is_connected(s) THEN connect_if_not_connecting(s, p)
    ELSE Returns(refresh_disconnect_timer(s), "true")

\* One call of write_gatt_char on the session held now (lines 312-318); with no
\* session held the attribute access on None raises.
write_gatt_char(s, p) ==
    LET k == s.current_bleak_client
    IN  IF k = None THEN Returns(s, "error")
        ELSE Suspended([BeginIO(s, p, "write") EXCEPT
                                 !.proc[p].io = k,
                                 !.proc[p].wrote = TRUE,
                                 !.proc[p].writes = @ + 1,
                                 !.phase[k] =
                                     IF p \in Tasks /\ s.proc[p].cmd = "SET_KEY"
                                        /\ @ = "subscribed" THEN "keyed"
                                     ELSE IF p \in Tasks /\ s.proc[p].cmd = "STATUS_QUERY"
                                             /\ @ = "keyed" THEN "ready"
                                     ELSE @,
                                 !.last_write = [cmd |-> s.proc[p].cmd,
                                                 by |-> p,
                                                 state |-> s.connection_type,
                                                 phase |-> s.phase[k]]], p)

\* _send_command without the early return of line 304.
send_regardless(r, p) ==
    IF r.out = "suspended" \/ IsException(r.out) THEN r
    ELSE write_gatt_char([r.s EXCEPT !.proc[p].conn = r.out], p)

\* The hexadecimal digits, and the value of one.
HexDigits == <<"0", "1", "2", "3", "4", "5", "6", "7",
               "8", "9", "a", "b", "c", "d", "e", "f">>

HexValue(ch) == CHOOSE d \in 0..15 : HexDigits[d + 1] = ch

\* The digits of hex(n) for n >= 0.
RECURSIVE hex_digits(_)
hex_digits(n) ==
    IF n < 16 THEN <<HexDigits[n + 1]>>
    ELSE Append(hex_digits(n \div 16), HexDigits[(n % 16) + 1])

\* hex(n)[2:]: hex(n) is "0x..." for n >= 0 and "-0x..." for n < 0, of which
\* the slice leaves "x...".
hex_2(n) == IF n >= 0 THEN hex_digits(n) ELSE <<"x">> \o hex_digits(0 - n)

\* str.zfill for a string without a sign.
RECURSIVE zfill(_, _)
zfill(str, width) ==
    IF Len(str) >= width THEN str ELSE zfill(<<"0">> \o str, width)

\* bytes.fromhex accepts the string (crypt.py, line 26): an even number of
\* hexadecimal digits; otherwise it raises ValueError.
fromhex(str) ==
    /\ Len(str) % 2 = 0
    /\ \A i \in DOMAIN str : \E d \in DOMAIN HexDigits : HexDigits[d] = str[i]

\* The number a string of hexadecimal digits denotes.
RECURSIVE int_16(_)
int_16(str) ==
    IF str = <<>> THEN 0
    ELSE 16 * int_16(SubSeq(str, 1, Len(str) - 1)) + HexValue(str[Len(str)])

\* MotionCommandType.PERCENT and MotionCommandType.ANGLE.
COMMAND_PERCENT == <<"0", "5", "0", "2", "0", "4", "4", "0">>
COMMAND_ANGLE == <<"0", "5", "0", "2", "0", "4", "2", "0">>

\* round(180 * percentage / 100) for an integer percentage: 1.8 * percentage
\* is never halfway between two integers.
round_angle(percentage) == (18 * percentage + 5) \div 10

\* _send_command after connect() returned r.out (lines 303-314): the command
\* is built once, before the first attempt (line 306); built is the number of
\* the attempt it was built for.  get_time() raises when no timezone is set,
\* and encrypt raises when the prefix is no hexadecimal string; the timestamp
\* itself is sixteen hexadecimal digits.
send_after_connect(r, p) ==
    IF r.out = "suspended" \/ IsException(r.out) THEN r
    ELSE LET s1 == [r.s EXCEPT !.proc[p].conn = r.out]
             s2 == [s1 EXCEPT !.proc[p].built = s1.proc[p].tries + 1]
         IN  IF r.out # "true" THEN Returns(s1, "false")
             ELSE IF ~s1.tz
             THEN Returns([s1 EXCEPT !.proc[p].raised = "TimezoneNotSetException"],
                          "error")
             ELSE IF ~fromhex(s1.proc[p].prefix)
             THEN Returns([s1 EXCEPT !.proc[p].raised = "ValueError"], "error")
             ELSE write_gatt_char(s2, p)

\* _send_command from its entry (lines 299-314).
send_command(s, p, command) ==
    send_after_connect(
        connect([s EXCEPT !.proc[p] = [IdleProc EXCEPT !.pc = s.proc[p].pc,
                                                       !.op = s.proc[p].op,
                                                       !.arg = s.proc[p].arg,
                                                       !.prefix = s.proc[p].prefix,
                                                       !.cmd = command]], p), p)

\* percentage() without its assert.
percentage_unchecked(s, p, percentage_) ==
    send_command([s EXCEPT !.proc[p].arg = percentage_,
                           !.proc[p].prefix =
                               COMMAND_PERCENT \o zfill(hex_2(percentage_), 2)
                                   \o <<"0", "0">>], p, "PERCENT")

\* percentage(percentage) (lines 351-357).
percentage(s, p, percentage_) ==
    IF percentage_ < 0 \/ percentage_ > 100
    THEN Returns([s EXCEPT !.proc[p].arg = percentage_,
                           !.proc[p].cmd = "PERCENT",
                           !.proc[p].raised = "AssertionError"], "error")
    ELSE send_command([s EXCEPT !.proc[p].arg = percentage_,
                                !.proc[p].prefix =
                                    COMMAND_PERCENT \o zfill(hex_2(percentage_), 2)
                                        \o <<"0", "0">>], p, "PERCENT")

\* percentage_tilt(percentage) (lines 386-392).
percentage_tilt(s, p, percentage_) ==
    LET angle == round_angle(percentage_)
    IN  send_command([s EXCEPT !.proc[p].arg = percentage_,
                               !.proc[p].prefix =
                                   COMMAND_ANGLE \o <<"0", "0">>
                                       \o zfill(hex_2(angle), 2)], p, "ANGLE")

\* _send_command resumed from the await of connect().
send_resume_join(s, p) == send_after_connect(after_await_connection_task(s, p), p)

\* _send_command resumed from write_gatt_char (lines 319-329): a BleakError is
\* counted and the write tried again; the loop ends without a return statement.
send_resume_write(s, p, outcome) ==
    IF outcome = "ok" THEN Returns(s, "true")
    ELSE LET number_of_tries == s.proc[p].tries + 1
             s1 == [s EXCEPT !.proc[p].tries = number_of_tries]
         IN  IF number_of_tries < SETTING_MAX_COMMAND_ATTEMPTS
             THEN write_gatt_char(s1, p)
             ELSE Returns(s1, "none")

\* disconnect() up to the await of BleakClient.disconnect (lines 207-216); cut
\* records, for a command with a write in flight, the number of writes it had
\* made when disconnect() ran.
disconnect(s, p) ==
    LET s0 == [s EXCEPT !.proc = [q \in Procs |->
                  IF s.proc[q].pc = "write" /\ s.proc[q].op = "command"
                     /\ s.proc[q].cut = 0
                  THEN [s.proc[q] EXCEPT !.cut = s.proc[q].writes]
                  ELSE s.proc[q]]]
        s1 == IF s0.connection_task # None
              THEN [cancel_disconnect_timer(Cancel(s0, s0.connection_task))
                        EXCEPT !.connection_task = None,
                               !.disconnect_cancelled[s0.connection_task] =
                                   (s0.result[s0.connection_task] = "none")]
              ELSE s0
    IN  IF s1.current_bleak_client # None
        THEN Suspended([BeginIO(s1, p, "close") EXCEPT
                                  !.proc[p].io = s1.current_bleak_client], p)
        ELSE Returns(s1, "none")

\* disconnect() without line 217.
disconnect_resume_silent(s, p) ==
    Returns([s EXCEPT !.current_bleak_client = None], "none")

\* disconnect() resumed (lines 217-218).
disconnect_resume(s, p) ==
    Returns([set_connection(s, DISCONNECTED) EXCEPT !.current_bleak_client = None],
            "none")

\* _connect from status_query() returning to its end (lines 286-290).
connect_after_status_query(r, t) ==
    IF r.out = "suspended" THEN r.s
    ELSE IF IsException(r.out) THEN Finish(r.s, t, r.out)
    ELSE Finish([r.s EXCEPT !.disconnected_callback[t] = TRUE], t, "true")

\* _connect from set_key() returning (lines 283-286).
connect_after_set_key(r, t) ==
    IF r.out = "suspended" THEN r.s
    ELSE IF IsException(r.out) THEN Finish(r.s, t, r.out)
    ELSE connect_after_status_query(send_command(r.s, t, "STATUS_QUERY"), t)

\* _connect without the report of line 262.
connect_start_unreported(s, t) ==
    IF s.connection_type = CONNECTING THEN Finish(s, t, "false")
    ELSE BeginIO([s EXCEPT !.connection_type = CONNECTING], t, "establish")

\* _connect from its entry to the await of establish_connection (lines 257-271).
connect_start(s, t) ==
    IF s.connection_type = CONNECTING THEN Finish(s, t, "false")
    ELSE BeginIO(set_connection(s, CONNECTING), t, "establish")

\* _connect with line 275 moved to the end of the sequence.
connect_established_unmarked(s, t, outcome) ==
    IF outcome # "ok" THEN Finish(s, t, outcome)
    ELSE [BeginIO([s EXCEPT !.current_bleak_client = t, !.link[t] = "up"],
                  t, "notify")
              EXCEPT !.phase[t] = "subscribed"]

\* _connect resumed from establish_connection (lines 266-280).
connect_established(s, t, outcome) ==
    IF outcome # "ok" THEN Finish(s, t, outcome)
    ELSE [BeginIO(set_connection([s EXCEPT !.current_bleak_client = t,
                                           !.link[t] = "up"], CONNECTED),
                  t, "notify")
              EXCEPT !.phase[t] = "subscribed"]

\* _connect resumed from start_notify (lines 277-286).
connect_notifying(s, t, outcome) ==
    IF outcome # "ok" THEN Finish(s, t, "error")
    ELSE connect_after_set_key(send_command(s, t, "SET_KEY"), t)

\* A caller's call returns (or keeps waiting).
caller_returns(r, p) ==
    IF r.out = "suspended" THEN r.s
    ELSE [r.s EXCEPT !.proc[p].pc = "done", !.proc[p].ret = r.out]

\* _disconnect_later after `await self.disconnect()` (lines 125-128).
disconnect_later_returns(r, p) ==
    IF r.out = "suspended" THEN r.s
    ELSE [set_connection(r.s, DISCONNECTED) EXCEPT !.proc[p].pc = "done",
                                                   !.proc[p].ret = r.out]

----------------------------------------------------------------------------
\* The event loop.  One iteration runs the handles that were ready when it
\* began, in order; what they schedule runs in the next iteration.  The ready
\* queue holds the coroutines the program itself wakes: a task just created,
\* a task that was cancelled, the coroutines awaiting a task that ended.

Head_(p) == ready # <<>> /\ Head(ready) = p

Dequeued == [State EXCEPT !.draining = TRUE,
                          !.ready = Tail(@),
                          !.batch = (IF @ = 0 THEN Len(ready) ELSE @) - 1]

\* A cancelled _connect task receives CancelledError at the await it waits in
\* (the await of another task catches it, see after_await_connection_task).
RunCancelled(t) ==
    /\ Head_(t) /\ t \in Tasks
    /\ must_cancel[t] /\ proc[t].pc # "join"
    /\ Becomes(Finish(Dequeued, t, "cancelled"))

\* A new _connect task runs to its first await.
RunConnect(t) ==
    /\ Head_(t) /\ t \in Tasks
    /\ ~must_cancel[t] /\ proc[t].pc = "start"
    /\ Becomes(connect_start(Dequeued, t))

\* After the send of `command` returned r.out inside _connect.
connect_after_send(r, t, command) ==
    IF command = "SET_KEY" THEN connect_after_set_key(r, t)
    ELSE connect_after_status_query(r, t)

\* _connect resumed at the await of the shared task inside set_key() or
\* status_query().
RunConnectJoined(t) ==
    /\ Head_(t) /\ t \in Tasks
    /\ proc[t].pc = "join"
    /\ Becomes(connect_after_send(send_resume_join(Dequeued, t), t, proc[t].cmd))

\* A command resumed at the await of the shared task.
RunCommandJoined(c) ==
    /\ Head_(c) /\ c \in Callers
    /\ proc[c].pc = "join"
    /\ Becomes(caller_returns(send_resume_join(Dequeued, c), c))

----------------------------------------------------------------------------
\* The environment: the callers, the transport and the timer.  Their events are
\* handled between the iterations of the loop; the coroutine an event starts
\* or resumes runs to its next await.

Polling == batch = 0

\* The operation coroutine p awaits may complete now.
Completes(p) == proc[p].age = 0 /\ (p \in Tasks => ~must_cancel[p])

Quiescent ==
    /\ ready = <<>>
    /\ \A p \in Procs : proc[p].pc \in {"idle", "done", "gone"}

Called(c, op) ==
    [State EXCEPT !.proc[c] = [IdleProc EXCEPT !.pc = "start", !.op = op],
                  !.scenario = IF Quiescent /\ op = "command"
                                  /\ connection_type = DISCONNECTED
                                  /\ current_bleak_client = None
                                  /\ connection_task = None /\ ~timer_pending
                               THEN [caller |-> c, log |-> <<>>]
                               ELSE NoScenario]

\* Each caller makes one call, and the callers are taken in order.
NextCaller(c) ==
    /\ c \in Callers
    /\ proc[c].pc = "idle"
    /\ \A d \in Callers : d < c => proc[d].pc # "idle"

\* open(), close(), stop(), ...: _send_command with a user command.
CallCommand(c) ==
    /\ Polling /\ NextCaller(c)
    /\ Becomes(caller_returns(send_command(Called(c, "command"), c, "OPEN"), c))

CallDisconnect(c) ==
    /\ Polling /\ NextCaller(c)
    /\ Becomes(caller_returns(disconnect(Called(c, "disconnect"), c), c))

\* establish_connection returns a session, or raises after its attempts.
EstablishDone(t, outcome) ==
    /\ Polling /\ t \in Tasks
    /\ proc[t].pc = "establish" /\ Completes(t)
    /\ Becomes(connect_established(State, t, outcome))

\* start_notify returns, or raises when the link is down.
NotifyDone(t) ==
    /\ Polling /\ t \in Tasks
    /\ proc[t].pc = "notify" /\ Completes(t)
    /\ Becomes(connect_notifying(State, t, IF link[t] = "up" THEN "ok" ELSE "error"))

\* write_gatt_char returns while the link is up, and raises BleakError when it
\* is down.
WriteDone(p, outcome) ==
    /\ Polling
    /\ proc[p].pc = "write" /\ Completes(p)
    /\ outcome = "ok" <=> link[proc[p].io] = "up"
    /\ LET r == send_resume_write(State, p, outcome)
       IN  IF p \in Tasks THEN Becomes(connect_after_send(r, p, proc[p].cmd))
           ELSE Becomes(caller_returns(r, p))

\* The transport reports that session k is gone (_disconnect_callback).
LinkLost(s, k) ==
    LET s1 == [s EXCEPT !.link[k] = "down"]
    IN  IF s.link[k] = "up" /\ s.disconnected_callback[k]
        THEN set_connection(s1, DISCONNECTED)
        ELSE s1

\* BleakClient.disconnect returns: the link is down.
CloseDone(p) ==
    /\ Polling
    /\ proc[p].pc = "close" /\ Completes(p)
    /\ LET r == disconnect_resume(LinkLost(State, proc[p].io), p)
       IN  IF p = TimerProc THEN Becomes(disconnect_later_returns(r, p))
           ELSE Becomes(caller_returns(r, p))

\* An unsolicited disconnect.
LinkDrop(k) ==
    /\ Polling /\ k \in Tasks
    /\ link[k] = "up"
    /\ Becomes([LinkLost(State, k) EXCEPT !.scenario = NoScenario])

\* The idle timer fires and runs _disconnect_later.
TimerFire ==
    /\ Polling
    /\ timer_pending
    /\ proc[TimerProc].pc = "idle"
    /\ Becomes(disconnect_later_returns(
           disconnect([State EXCEPT
               !.timer_pending = FALSE,
               !.proc[TimerProc] = [IdleProc EXCEPT !.pc = "start",
                                                    !.op = "_disconnect_later"],
               !.scenario = NoScenario], TimerProc), TimerProc))

Next ==
    \/ \E t \in Tasks : RunCancelled(t)
    \/ \E t \in Tasks : RunConnect(t)
    \/ \E t \in Tasks : RunConnectJoined(t)
    \/ \E c \in Callers : RunCommandJoined(c)
    \/ \E c \in Callers : CallCommand(c)
    \/ \E c \in Callers : CallDisconnect(c)
    \/ \E t \in Tasks, outcome \in {"ok", "slots", "error"} : EstablishDone(t, outcome)
    \/ \E t \in Tasks : NotifyDone(t)
    \/ \E p \in Procs, outcome \in {"ok", "error"} : WriteDone(p, outcome)
    \/ \E p \in Procs : CloseDone(p)
    \/ \E k \in Tasks : LinkDrop(k)
    \/ TimerFire

Spec == Init /\ [][Next]_<<vars, tvars, svars>>

----------------------------------------------------------------------------
\* Recovery.  The callers but the last make their calls as in Spec, with the
\* transport failing, the link dropping and the timer firing at any point.
\* Once nothing is left to run, the last caller makes one command alone: from
\* then on no other call is made, the transport works (establish_connection
\* returns a session, the link stays up) and no timer fires.

\* A command made alone, when no coroutine is left to run.
LoneCommand(c) ==
    /\ Polling /\ Quiescent /\ NextCaller(c)
    /\ lone = None
    /\ Becomes(caller_returns(
           send_command([Called(c, "command") EXCEPT !.lone = c], c, "OPEN"), c))

RecoverNext ==
    \/ \E t \in Tasks : RunCancelled(t)
    \/ \E t \in Tasks : RunConnect(t)
    \/ \E t \in Tasks : RunConnectJoined(t)
    \/ \E c \in Callers : RunCommandJoined(c)
    \/ \E c \in Callers \ {MaxTasks + MaxCallers} : lone = None /\ CallCommand(c)
    \/ \E c \in Callers \ {MaxTasks + MaxCallers} : lone = None /\ CallDisconnect(c)
    \/ \E c \in Callers : LoneCommand(c)
    \/ \E t \in Tasks, outcome \in {"ok", "slots", "error"} :
           (lone = None \/ outcome = "ok") /\ EstablishDone(t, outcome)
    \/ \E t \in Tasks : NotifyDone(t)
    \/ \E p \in Procs, outcome \in {"ok", "error"} : WriteDone(p, outcome)
    \/ \E p \in Procs : CloseDone(p)
    \/ \E k \in Tasks : lone = None /\ LinkDrop(k)
    \/ lone = None /\ TimerFire

RecoverSpec == Init /\ [][RecoverNext]_<<vars, tvars, svars, xvars>>

----------------------------------------------------------------------------
\* Commands with a parameter, and the timezone of MotionCrypt.  Here the
\* device starts with no timezone set, and the commands are made one at a
\* time.

\* The percentages asked for.
Percentages == {-1, 0, 50, 100, 101, 141, 142, 2276}

CommandInit == Constructed /\ tz = FALSE

\* MotionCrypt.set_timezone (crypt.py, lines 20-22).
SetTimezone ==
    /\ Polling /\ Quiescent /\ ~tz
    /\ Becomes([State EXCEPT !.tz = TRUE])

CallPercentage(c, percentage_) ==
    /\ Polling /\ Quiescent /\ NextCaller(c)
    /\ Becomes(caller_returns(percentage(Called(c, "command"), c, percentage_), c))

CallPercentageTilt(c, percentage_) ==
    /\ Polling /\ Quiescent /\ NextCaller(c)
    /\ Becomes(caller_returns(
           percentage_tilt(Called(c, "command"), c, percentage_), c))

CommandNext ==
    \/ SetTimezone
    \/ \E c \in Callers, percentage_ \in Percentages : CallPercentage(c, percentage_)
    \/ \E c \in Callers, percentage_ \in Percentages :
           CallPercentageTilt(c, percentage_)
    \/ \E t \in Tasks : RunConnect(t)
    \/ \E c \in Callers : RunCommandJoined(c)
    \/ \E t \in Tasks, outcome \in {"ok", "slots", "error"} : EstablishDone(t, outcome)
    \/ \E t \in Tasks : NotifyDone(t)
    \/ \E p \in Procs, outcome \in {"ok", "error"} : WriteDone(p, outcome)
    \/ \E p \in Procs : CloseDone(p)
    \/ TimerFire

CommandSpec == CommandInit /\ [][CommandNext]_<<vars, tvars, svars>>

----------------------------------------------------------------------------
\* The deadline of the idle timer, with the clock and the timeouts as numbers,
\* and the callbacks the cover entity registers on the device.  The code
\* computes in milliseconds (time_ns() // 1e6 + timeout * 1e3); the clock and
\* the deadlines here are whole seconds.

SETTING_DISCONNECT_TIME == 15

\* cover.py imports this setting from const.py; the value is a parameter here.
SETTING_CALIBRATION_DISCONNECT_TIME == 30

\* The clock runs from 0 to MaxNow in steps of Step.
MaxNow == 20
Step == 5

\* The timeout argument: None (the default), or a number of seconds.
Timeouts == {None, Step, SETTING_CALIBRATION_DISCONNECT_TIME}

\* MotionNotificationType, as the bytes the message starts with; Unknown is
\* the start of a message of no known type.
PERCENT == <<7, 4, 4, 2>>
RUNNING == <<7, 4, 4, 2, 30>>
READY == <<2, 1, 192>>
STATUS == <<18, 4, 15, 2>>
Unknown == <<9, 9>>

\* The length of a complete message: the handler reads up to byte 17.
FullLength == 18

\* A decrypted message of `length` bytes (at least its prefix) with the byte
\* of the end positions (index 4) and of the speed level (index 12) given;
\* sequences count from 1.
Message(prefix, length, end_positions, speed) ==
    [i \in 1..(IF length > Len(prefix) THEN length ELSE Len(prefix)) |->
        IF i <= Len(prefix) THEN prefix[i]
        ELSE IF i = 5 THEN end_positions
        ELSE IF i = 13 THEN speed
        ELSE 0]

\* The decrypted messages: of every type, complete or cut after the prefix,
\* end position UP set or not, speed level 2 or the unknown level 0.
Messages ==
    {Message(prefix, length, end_positions, speed) :
        prefix \in {PERCENT, RUNNING, READY, STATUS, Unknown},
        length \in {0, FullLength}, end_positions \in {0, 8}, speed \in {0, 2}}

\* What the transport delivers: bytes that decrypt to plain, or bytes whose
\* padding unpad rejects (crypt.py, lines 33-40).
Raws ==
    {[padded |-> TRUE, plain |-> m] : m \in Messages}
        \cup {[padded |-> FALSE, plain |-> <<>>]}

\* str.startswith
startswith(message, prefix) ==
    /\ Len(message) >= Len(prefix)
    /\ SubSeq(message, 1, Len(prefix)) = prefix

\* MotionPositionInfo.UP (lines 33-36): bool(end_positions_byte & 0x08).
UP(end_positions_byte) == (end_positions_byte \div 8) % 2 = 1

\* The timer fields of the device.
Timer == [disconnect_timer |-> disconnect_timer,
          disconnect_time |-> disconnect_time,
          timer_pending |-> timer_pending,
          timer_deadline |-> timer_deadline,
          pending_timers |-> pending_timers]

\* _cancel_disconnect_timer (lines 97-105) on the timer fields, with the
\* timers pending in the scheduler counted: a timer that was pending and is
\* cancelled is one less.
cancel_scheduled(d) ==
    LET c == cancel_disconnect_timer(d)
    IN  [c EXCEPT !.pending_timers =
                      IF d.timer_pending /\ ~c.timer_pending THEN @ - 1 ELSE @]

\* The cover entity and the timer of its device.
Cover == [timer |-> Timer, cover |-> cover,
          calibration_type |-> calibration_type, running_type |-> running_type]

\* refresh_disconnect_timer with force ignored.
refresh_unforced(d, clock, timeout_, force) ==
    LET timeout == IF timeout_ = None THEN SETTING_DISCONNECT_TIME ELSE timeout_
        new_disconnect_time == clock + timeout
    IN  IF d.disconnect_timer /\ d.disconnect_time > new_disconnect_time
        THEN d
        ELSE [cancel_scheduled(d) EXCEPT
                 !.disconnect_time = new_disconnect_time,
                 !.disconnect_timer = TRUE,
                 !.timer_pending = TRUE,
                 !.timer_deadline = new_disconnect_time,
                 !.pending_timers = @ + 1]

\* refresh_disconnect_timer(timeout, force) called at time `clock`
\* (lines 107-140).
refresh_disconnect_timer_at(d, clock, timeout_, force) ==
    LET timeout == IF timeout_ = None THEN SETTING_DISCONNECT_TIME ELSE timeout_
        new_disconnect_time == clock + timeout
    IN  IF ~force /\ d.disconnect_timer /\ d.disconnect_time > new_disconnect_time
        THEN d
        ELSE [cancel_scheduled(d) EXCEPT
                 !.disconnect_time = new_disconnect_time,
                 !.disconnect_timer = TRUE,
                 !.timer_pending = TRUE,
                 !.timer_deadline = new_disconnect_time,
                 !.pending_timers = @ + 1]

\* async_update_calibration without the refresh at the end of a calibration.
update_calibration_only(c, clock, up) ==
    [c EXCEPT !.calibration_type =
                  IF up THEN "calibrated"
                  ELSE IF c.running_type # "none" /\ c.running_type # "still"
                       THEN "calibrating"
                       ELSE "uncalibrated"]

\* PositionCalibrationBlind.async_update_calibration (cover.py, lines 555-577).
async_update_calibration(c, clock, up) ==
    LET new_calibration_type ==
            IF up THEN "calibrated"
            ELSE IF c.running_type # "none" /\ c.running_type # "still"
                 THEN "calibrating"
                 ELSE "uncalibrated"
    IN  [c EXCEPT !.timer =
                      IF c.calibration_type = "calibrating"
                         /\ new_calibration_type # "calibrating"
                      THEN refresh_disconnect_timer_at(@, clock, None, TRUE)
                      ELSE @,
                  !.calibration_type = new_calibration_type]

\* GenericBlind.async_update_position and async_update_status (cover.py,
\* lines 269-288 and 311-333): a calibration blind updates its calibration.
async_update_position(c, clock, up) ==
    IF c.cover = "calibration" THEN async_update_calibration(c, clock, up) ELSE c

\* A dispatch that takes every message as a position message.
branch_position(message, registered) ==
    IF registered THEN "position" ELSE "none"

\* The branch of _notification_callback a message takes (lines 150-180): the
\* message is tested for PERCENT first, then RUNNING, then STATUS, each with
\* its callback registered.
notification_branch(message, registered) ==
    IF startswith(message, PERCENT) /\ registered THEN "position"
    ELSE IF startswith(message, RUNNING) /\ registered THEN "running"
    ELSE IF startswith(message, STATUS) /\ registered THEN "status"
    ELSE "none"

\* _notification_callback (lines 142-191) with the callbacks of the cover.
\* decrypt raises ValueError on bytes unpad rejects; reading a byte beyond the
\* end of the message raises IndexError; MotionSpeedLevel of a byte that is no
\* level raises ValueError; all of them before a callback is called.  The
\* RUNNING branch calls nothing (line 170 is a comment).
notification_callback(c, clock, raw) ==
    LET message == raw.plain
        branch == notification_branch(message, c.cover # "none")
        nothing == [c |-> c, branch |-> "none", callback |-> "none",
                    raised |-> "none"]
    IN  IF ~raw.padded THEN [nothing EXCEPT !.raised = "ValueError"]
        ELSE IF branch = "position"
        THEN IF Len(message) < 8
             THEN [nothing EXCEPT !.branch = branch, !.raised = "IndexError"]
             ELSE [c |-> async_update_position(c, clock, UP(message[5])),
                   branch |-> branch, callback |-> "position",
                   raised |-> "none"]
        ELSE IF branch = "running"
        THEN IF Len(message) < 6
             THEN [nothing EXCEPT !.branch = branch, !.raised = "IndexError"]
             ELSE [nothing EXCEPT !.branch = branch]
        ELSE IF branch = "status"
        THEN IF Len(message) < FullLength
             THEN [nothing EXCEPT !.branch = branch, !.raised = "IndexError"]
             ELSE IF message[13] \notin {1, 2, 3}
             THEN [nothing EXCEPT !.branch = branch, !.raised = "ValueError"]
             ELSE [c |-> async_update_position(c, clock, UP(message[5])),
                   branch |-> branch, callback |-> "status",
                   raised |-> "none"]
        ELSE nothing

\* A notification is malformed: its bytes do not decrypt, or the message is
\* shorter than the fields of its type, or it is a status message whose speed
\* byte is none of the levels 1, 2, 3.
Malformed(raw) ==
    \/ ~raw.padded
    \/ startswith(raw.plain, PERCENT) /\ Len(raw.plain) < 8
    \/ /\ startswith(raw.plain, STATUS)
       /\ Len(raw.plain) < FullLength \/ raw.plain[13] \notin {1, 2, 3}

\* async_update_running (cover.py, lines 251-265 and 541-552).
async_update_running(c, clock, running_type_) ==
    LET starts == /\ c.cover = "calibration"
                  /\ c.calibration_type = "uncalibrated"
                  /\ running_type_ # "still"
    IN  [c EXCEPT !.calibration_type = IF starts THEN "calibrating" ELSE @,
                  !.timer = IF starts
                            THEN refresh_disconnect_timer_at(
                                     @, clock, SETTING_CALIBRATION_DISCONNECT_TIME, FALSE)
                            ELSE @,
                  !.running_type = running_type_]

\* The variables the timer and the cover do not touch.
dvars == <<connection_type, reported, current_bleak_client, connection_task,
           last_connection_caller_time, link, disconnected_callback, proc,
           result, waiters, must_cancel, ready, batch, last_admitted,
           last_joiner, phase, disconnect_cancelled, last_write, scenario, tz,
           told_twice, lone>>

CoverBecomes(c, call) ==
    /\ disconnect_timer' = c.timer.disconnect_timer
    /\ disconnect_time' = c.timer.disconnect_time
    /\ timer_pending' = c.timer.timer_pending
    /\ timer_deadline' = c.timer.timer_deadline
    /\ pending_timers' = c.timer.pending_timers
    /\ cover' = c.cover
    /\ calibration_type' = c.calibration_type
    /\ running_type' = c.running_type
    /\ last_call' = [call EXCEPT !.before = Timer,
                                 !.calibration_type = calibration_type,
                                 !.running_type = running_type]
    /\ UNCHANGED <<now, dvars, svars, xvars>>

\* async_added_to_hass registers the callbacks of the entity (cover.py,
\* lines 188-192).
AddedToHass(kind) ==
    /\ cover = "none" /\ last_call = NoCall /\ now = 0 /\ ~disconnect_timer
    /\ CoverBecomes([Cover EXCEPT !.cover = kind], NoCall)

\* An explicit refresh (cover.py, lines 195-199).
Refresh(timeout, force) ==
    /\ timeout \in Timeouts
    /\ CoverBecomes([Cover EXCEPT !.timer =
                      refresh_disconnect_timer_at(@, now, timeout, force)],
                 [NoCall EXCEPT !.op = "refresh", !.timeout = timeout,
                                !.force = force])

\* The transport delivers a notification.
Notification(raw) ==
    /\ raw \in Raws
    /\ LET r == notification_callback(Cover, now, raw)
       IN  CoverBecomes(r.c,
               [NoCall EXCEPT !.op = "notification", !.kind = raw.plain,
                              !.up = Len(raw.plain) >= 5 /\ UP(raw.plain[5]),
                              !.malformed = Malformed(raw),
                              !.branch = r.branch, !.callback = r.callback,
                              !.raised = r.raised])

\* A cover command reports the blind as moving or still.
UpdateRunning(running_type_) ==
    /\ cover # "none"
    /\ CoverBecomes(async_update_running(Cover, now, running_type_),
                    [NoCall EXCEPT !.op = "running"])

\* disconnect() with a connect handle set cancels the timer (lines 209-213).
CancelTimer ==
    /\ disconnect_timer
    /\ CoverBecomes([Cover EXCEPT !.timer = cancel_scheduled(@)],
                    [NoCall EXCEPT !.op = "cancel"])

\* The timer fires at its deadline.
Fire ==
    /\ timer_pending /\ now >= timer_deadline
    /\ CoverBecomes([Cover EXCEPT !.timer.timer_pending = FALSE,
                                  !.timer.pending_timers = @ - 1],
                    [NoCall EXCEPT !.op = "fire"])

\* Time passes, not beyond the deadline of a pending timer.
Tick ==
    /\ now + Step <= MaxNow
    /\ timer_pending => now + Step <= timer_deadline
    /\ now' = now + Step
    /\ last_call' = NoCall
    /\ UNCHANGED <<dvars, svars, xvars, disconnect_timer, timer_pending, disconnect_time,
                   timer_deadline, cover, calibration_type, running_type,
                   pending_timers>>

TimerNext ==
    \/ \E kind \in {"position", "calibration"} : AddedToHass(kind)
    \/ \E timeout \in Timeouts, force \in BOOLEAN : Refresh(timeout, force)
    \/ \E raw \in Raws : Notification(raw)
    \/ \E running_type_ \in {"opening", "still"} : UpdateRunning(running_type_)
    \/ CancelTimer
    \/ Fire
    \/ Tick

TimerSpec == Init /\ [][TimerNext]_<<vars, tvars, svars>>

----------------------------------------------------------------------------
\* The stop button of the cover entity: a second stop within the double-click
\* time is a favorite (cover.py, lines 217-236).  The times are milliseconds.

SETTING_DOUBLE_CLICK_TIME == 500

\* async_stop_cover from its call to the await of the device command (lines
\* 218-235): before_run_command awaits nothing that suspends.
StopCover(r) ==
    /\ r \in Stops
    /\ stop_request[r].pc = "idle"
    /\ \A q \in Stops : q < r => stop_request[q].pc # "idle"
    /\ LET current_stop_click_time == click_clock
           favorite == /\ last_stop_click_time # None
                       /\ current_stop_click_time - last_stop_click_time
                              < SETTING_DOUBLE_CLICK_TIME
       IN  /\ stop_request' =
                  [stop_request EXCEPT ![r] =
                      [pc |-> IF favorite THEN "favorite" ELSE "stop",
                       time |-> current_stop_click_time]]
           /\ issued' = Append(issued, IF favorite THEN "FAVORITE" ELSE "STOP")
    /\ UNCHANGED <<vars, tvars, xvars, click_clock, last_stop_click_time>>

\* async_stop_cover resumed from the device command (lines 231 and 236): when
\* the command raised, the assignment after it is not made.
StopCoverDone(r, outcome) ==
    /\ r \in Stops
    /\ stop_request[r].pc \in {"stop", "favorite"}
    /\ stop_request' = [stop_request EXCEPT ![r].pc = "done"]
    /\ last_stop_click_time' =
           IF outcome = "raised" THEN last_stop_click_time
           ELSE IF stop_request[r].pc = "favorite" THEN None
           ELSE stop_request[r].time
    /\ UNCHANGED <<vars, tvars, xvars, click_clock, issued>>

\* time.time_ns() // 1e6 advances.
ClickTick ==
    /\ click_clock + ClickStep <= MaxClick
    /\ click_clock' = click_clock + ClickStep
    /\ UNCHANGED <<vars, tvars, xvars, last_stop_click_time, stop_request, issued>>

StopNext ==
    \/ \E r \in Stops : StopCover(r)
    \/ \E r \in Stops, outcome \in {"returned", "raised"} : StopCoverDone(r, outcome)
    \/ ClickTick

StopSpec == Init /\ [][StopNext]_<<vars, tvars, svars>>

----------------------------------------------------------------------------
\* The timestamp of a command (crypt.py) and the conversions between the angle
\* of a notification and the tilt percentage of the cover.

\* What datetime.now(MotionCrypt.tz) may give: the first and the last value of
\* every field, and the microseconds around the widths of the millisecond
\* field.
Moments ==
    [year : {2000, 2026, 2099}, month : {1, 12}, day : {1, 31},
     hour : {0, 23}, minute : {0, 59}, second : {0, 59},
     microsecond : {0, 15999, 255000, 256000, 999999}]

\* _format_hex without zfill.
format_hex_unpadded(number, number_of_chars) ==
    hex_2(number % (16 ^ number_of_chars))

\* MotionCrypt._format_hex (crypt.py, lines 42-44):
\* hex(number & 2 ** (number_of_chars * 4) - 1)[2:].zfill(number_of_chars),
\* for a number that is not negative.
format_hex(number, number_of_chars) ==
    zfill(hex_2(number % (16 ^ number_of_chars)), number_of_chars)

\* MotionCrypt.get_time (crypt.py, lines 46-78) with `now` as given.
get_time(tz_, now_) ==
    IF ~tz_ THEN [raised |-> "TimezoneNotSetException", value |-> <<>>]
    ELSE [raised |-> "none",
          value |-> format_hex(now_.year % 100, 2)
                        \o format_hex(now_.month, 2)
                        \o format_hex(now_.day, 2)
                        \o format_hex(now_.hour, 2)
                        \o format_hex(now_.minute, 2)
                        \o format_hex(now_.second, 2)
                        \o format_hex(now_.microsecond \div 1000, 4)]

\* round(n / d) of Python 3 for n >= 0 and d > 0: to the nearest integer, and
\* to the even one of the two when n / d is halfway between them.
round_half_even(n, d) ==
    LET q == n \div d
        r == n % d
    IN  IF 2 * r < d THEN q
        ELSE IF 2 * r > d THEN q + 1
        ELSE IF q % 2 = 0 THEN q ELSE q + 1

\* The conversion of the angle with int() in place of round().
angle_percentage_truncated(angle) == (100 * angle) \div 180

\* angle_percentage = round(100 * angle / 180) (device.py, lines 159-160 and
\* 178-179).
angle_percentage(angle) == round_half_even(100 * angle, 180)

\* The angles and the percentages of the protocol.
Angles == 0..180
Percents == 0..100

CodecInit ==
    /\ Device
    /\ entity = NewEntity
    /\ entity_command = NoEntityCommand
    /\ entity_call = NoEntityCall
    /\ tz \in BOOLEAN
    /\ moment \in Moments \cup {NoMoment}
    /\ time_hex = NoTime
    /\ conversion = NoConversion

\* get_time() is called at the moment `moment`.
GetTime ==
    /\ moment # NoMoment /\ time_hex = NoTime
    /\ time_hex' = get_time(tz, moment)
    /\ UNCHANGED <<vars, tvars, svars, evars, moment, conversion>>

\* A notification carries `angle`, and the tilt percentage made of it is sent
\* back with percentage_tilt.
AngleRoundTrip(angle) ==
    /\ moment = NoMoment /\ angle \in Angles
    /\ conversion' = [of |-> "angle", from |-> angle,
                      to |-> angle_percentage(angle),
                      back |-> round_angle(angle_percentage(angle))]
    /\ UNCHANGED <<vars, tvars, svars, evars, moment, time_hex>>

\* percentage_tilt is called with `percentage_`, and the notification of the
\* angle it sent is converted back.
PercentRoundTrip(percentage_) ==
    /\ moment = NoMoment /\ percentage_ \in Percents
    /\ conversion' = [of |-> "percent", from |-> percentage_,
                      to |-> round_angle(percentage_),
                      back |-> angle_percentage(round_angle(percentage_))]
    /\ UNCHANGED <<vars, tvars, svars, evars, moment, time_hex>>

CodecNext ==
    \/ GetTime
    \/ \E angle \in Angles : AngleRoundTrip(angle)
    \/ \E percentage_ \in Percents : PercentRoundTrip(percentage_)

CodecSpec == CodecInit /\ [][CodecNext]_<<vars, tvars, svars, xvars>>

----------------------------------------------------------------------------
\* The cover entity (cover.py): the callbacks the device calls into it and its
\* motion commands.  battery and speed are what the sensors were last given:
\* a value, or NoValue for None (their value before the first call).

\* The bytes of a notification: the position and the angle percentage, the
\* battery percentage and the speed level.
PositionBytes == {0, 40}
AnglePercentages == {0, 50}
BatteryBytes == {80}
SpeedLevels == {2}

\* The positions asked for with async_set_cover_position (ATTR_POSITION).
AskedPositions == {0, 60, 100}

\* GenericBlind.async_update_running (cover.py, lines 251-266).
entity_update_running(e, running_type_) ==
    [e EXCEPT !.running_type = running_type_,
              !.is_opening = IF running_type_ = STILL THEN "false"
                             ELSE IF running_type_ = OPENING THEN "true" ELSE "false",
              !.is_closing = IF running_type_ = STILL THEN "false"
                             ELSE IF running_type_ # OPENING THEN "true" ELSE "false",
              !.is_closed = IF running_type_ # STILL THEN "none" ELSE @]

\* GenericBlind.async_update_position (cover.py, lines 268-288) of a blind
\* without calibration.
entity_update_position(e, new_position_percentage, new_angle_percentage) ==
    [e EXCEPT !.current_cover_position = 100 - new_position_percentage,
              !.current_cover_tilt_position = 100 - new_angle_percentage,
              !.is_closed = IF 100 - new_position_percentage = 0
                            THEN "true" ELSE "false",
              !.is_opening = "false",
              !.is_closing = "false"]

\* async_update_connection that keeps the tilt and the battery on a
\* disconnect.
update_connection_kept(e, connection_type_) ==
    IF connection_type_ = DISCONNECTED
    THEN [e EXCEPT !.connection_type = connection_type_,
                   !.use_status_position_update_ui = FALSE,
                   !.is_opening = "false",
                   !.is_closing = "false",
                   !.is_closed = "none",
                   !.current_cover_position = NoValue,
                   !.speed = IF e.speed_callback THEN NoValue ELSE @]
    ELSE [e EXCEPT !.connection_type = connection_type_]

\* GenericBlind.async_update_connection (cover.py, lines 290-308).
async_update_connection(e, connection_type_) ==
    IF connection_type_ = DISCONNECTED
    THEN [e EXCEPT !.connection_type = connection_type_,
                   !.use_status_position_update_ui = FALSE,
                   !.is_opening = "false",
                   !.is_closing = "false",
                   !.is_closed = "none",
                   !.current_cover_position = NoValue,
                   !.current_cover_tilt_position = NoValue,
                   !.speed = IF e.speed_callback THEN NoValue ELSE @,
                   !.battery = IF e.battery_callback THEN NoValue ELSE @]
    ELSE [e EXCEPT !.connection_type = connection_type_]

\* GenericBlind.async_update_status (cover.py, lines 310-333) of a blind
\* without calibration.
async_update_status(e, position_percentage, tilt_percentage, battery_percentage, speed_level) ==
    LET e1 == IF e.use_status_position_update_ui
              THEN [e EXCEPT !.current_cover_position = 100 - position_percentage,
                             !.current_cover_tilt_position = 100 - tilt_percentage,
                             !.use_status_position_update_ui = FALSE]
              ELSE e
    IN  [e1 EXCEPT !.battery = IF e.battery_callback THEN battery_percentage ELSE @,
                   !.speed = IF e.speed_callback THEN speed_level ELSE @]

\* before_run_command (cover.py, lines 374-383); the refresh of the timer of
\* a connected device is not part of the entity.
before_run_command(e) ==
    IF e.connection_type # CONNECTED
    THEN [e EXCEPT !.use_status_position_update_ui = FALSE]
    ELSE e

\* The running type a motion command announces before it awaits the device
\* (cover.py, lines 412, 422, 434-441, 467, 477 and 496-503); the position
\* asked for is the one of the cover, of which the device gets 100 minus it.
announced(e, func, position) ==
    LET new_position == 100 - position
        current == IF func = "set_cover_position" THEN e.current_cover_position
                   ELSE e.current_cover_tilt_position
    IN  IF func \in {"open_cover", "open_cover_tilt"} THEN OPENING
        ELSE IF func \in {"close_cover", "close_cover_tilt"} THEN CLOSING
        ELSE IF current = NoValue \/ new_position = 100 - current THEN STILL
        ELSE IF new_position < 100 - current THEN OPENING
        ELSE CLOSING

\* The motion commands of the entity.
MotionCommands == {"open_cover", "close_cover", "set_cover_position",
                   "open_cover_tilt", "close_cover_tilt",
                   "set_cover_tilt_position"}

\* What the command of the device gives the entity: True, False, None (the
\* writes all failed), or an exception.
DeviceOutcomes == {"true", "false", "none", "raised"}

\* A motion command after the await of the device command (cover.py, lines
\* 413-416 and alike): an exception leaves the handler at the await.
command_resumed(e, outcome) ==
    IF outcome = "raised" THEN e
    ELSE IF outcome = "true" THEN e
    ELSE entity_update_running(e, STILL)

EntityCalled(op, connection_type_) ==
    entity_call' = [op |-> op, connection_type |-> connection_type_,
                    before |-> entity]

\* sensor.py (line 108) and select.py (line 60) register their callbacks.
RegisterBattery ==
    /\ ~entity.battery_callback
    /\ entity' = [entity EXCEPT !.battery_callback = TRUE]
    /\ EntityCalled("register", "none")
    /\ UNCHANGED <<vars, tvars, svars, nvars, entity_command>>

RegisterSpeed ==
    /\ ~entity.speed_callback
    /\ entity' = [entity EXCEPT !.speed_callback = TRUE]
    /\ EntityCalled("register", "none")
    /\ UNCHANGED <<vars, tvars, svars, nvars, entity_command>>

\* MotionDevice.set_connection (device.py, lines 91-95) with the callback the
\* entity registered (cover.py, line 191).
SetConnection(connection_type_) ==
    /\ connection_type_ \in {DISCONNECTED, CONNECTING, CONNECTED}
    /\ LET s == set_connection(State, connection_type_)
       IN  /\ connection_type' = s.connection_type
           /\ reported' = s.reported
    /\ entity' = async_update_connection(entity, connection_type_)
    /\ EntityCalled("connection", connection_type_)
    /\ UNCHANGED <<current_bleak_client, connection_task,
                   last_connection_caller_time, disconnect_timer,
                   timer_pending, link, disconnected_callback, proc, result,
                   waiters, must_cancel, ready, batch, last_admitted,
                   last_joiner, phase, disconnect_cancelled, last_write,
                   scenario, tz, told_twice, lone,
                   tvars, svars, nvars, entity_command>>

\* A position notification reaches the position callback.
EntityPosition(position_percentage, angle_percentage_) ==
    /\ connection_type = CONNECTED
    /\ entity' = entity_update_position(entity, position_percentage,
                                        angle_percentage_)
    /\ EntityCalled("position", "none")
    /\ UNCHANGED <<vars, tvars, svars, nvars, entity_command>>

\* A status notification reaches the status callback.
EntityStatus(position_percentage, tilt_percentage, battery_percentage, speed_level) ==
    /\ connection_type = CONNECTED
    /\ entity' = async_update_status(entity, position_percentage, tilt_percentage,
                                     battery_percentage, speed_level)
    /\ EntityCalled("status", "none")
    /\ UNCHANGED <<vars, tvars, svars, nvars, entity_command>>

\* A motion command from its call to the await of the device command.
EntityCommand(func, position) ==
    /\ func \in MotionCommands /\ position \in AskedPositions
    /\ entity_command.pc # "await"
    /\ entity' = entity_update_running(before_run_command(entity),
                                       announced(entity, func, position))
    /\ entity_command' = [pc |-> "await", func |-> func, res |-> "none"]
    /\ EntityCalled("command", "none")
    /\ UNCHANGED <<vars, tvars, svars, nvars>>

\* The device command returns or raises, and the handler ends.
EntityCommandDone(outcome) ==
    /\ outcome \in DeviceOutcomes
    /\ entity_command.pc = "await"
    /\ entity' = command_resumed(entity, outcome)
    /\ entity_command' = [entity_command EXCEPT !.pc = "done", !.res = outcome]
    /\ EntityCalled("command", "none")
    /\ UNCHANGED <<vars, tvars, svars, nvars>>

EntityNext ==
    \/ RegisterBattery
    \/ RegisterSpeed
    \/ \E connection_type_ \in {DISCONNECTED, CONNECTING, CONNECTED} :
           SetConnection(connection_type_)
    \/ \E position_percentage \in PositionBytes,
          angle_percentage_ \in AnglePercentages :
           EntityPosition(position_percentage, angle_percentage_)
    \/ \E position_percentage \in PositionBytes,
          tilt_percentage \in AnglePercentages,
          battery_percentage \in BatteryBytes, speed_level \in SpeedLevels :
           EntityStatus(position_percentage, tilt_percentage,
                        battery_percentage, speed_level)
    \/ \E func \in MotionCommands, position \in AskedPositions :
           EntityCommand(func, position)
    \/ \E outcome \in DeviceOutcomes : EntityCommandDone(outcome)

EntitySpec == Init /\ [][EntityNext]_<<vars, tvars, svars, xvars>>

----------------------------------------------------------------------------
\* Claims.

\* A _connect task that exists and has neither ended nor been cancelled.
LiveTask(t) == proc[t].pc \notin {"idle", "done"} /\ ~must_cancel[t]

\* A caller whose call has just returned.
Returned(c) == c \in Callers /\ proc[c].pc = "done"

\* C1: at most one shared connect operation exists at any time, and at most one
\* establish_connection is in flight.
C1_OneConnect ==
    /\ Cardinality({t \in Tasks : LiveTask(t)}) <= 1
    /\ Cardinality({t \in Tasks : proc[t].pc = "establish" /\ ~must_cancel[t]}) <= 1

C3_Abandoned ==
    \A p \in Procs :
        proc[p].conn = "false"
        => /\ ~proc[p].wrote
           /\ last_write.by # p
           /\ p \in Callers => proc[p].pc = "done" /\ proc[p].ret = "false"

\* A command was abandoned after its connect operation resolved true.
C3_AbandonedCommand ==
    \E c \in Callers :
        /\ Returned(c) /\ proc[c].cmd = "OPEN" /\ proc[c].conn = "false"
        /\ proc[c].resolved.result = "true"

\* C4: a user command is written to a session only after the subscription, the
\* SET_KEY write and the STATUS_QUERY write of that session.
C4_InitBeforeCommand ==
    last_write.cmd = "OPEN" => last_write.phase = "ready"

\* C5 as stated: the state is Connected only once the session held has been
\* subscribed to and SET_KEY and STATUS_QUERY have been written to it.
C5_ConnectedLast ==
    (connection_type = CONNECTED /\ current_bleak_client # None)
    => phase[current_bleak_client] = "ready"

\* C5, amended: _connect sets Connected, and holds the session, at the moment
\* establish_connection returns it: before the subscription has completed and
\* before SET_KEY and STATUS_QUERY are written.
C5_ConnectedFirst ==
    [][\A t \in Tasks :
          (proc[t].pc = "establish" /\ proc'[t].pc = "notify")
          => /\ connection_type' = CONNECTED
             /\ current_bleak_client' = t
             /\ phase'[t] = "subscribed"
             /\ last_write' = NoWrite]_vars

\* A _connect task awaits start_notify, nothing written yet, in state Connected.
C5_ConnectedWhileSubscribing ==
    \E t \in Tasks :
        /\ proc[t].pc = "notify" /\ phase[t] = "subscribed"
        /\ connection_type = CONNECTED /\ current_bleak_client = t

\* C6: a command called on a disconnected, idle device that returns true, with
\* no other call, link loss or timer in between, has reported exactly
\* Connecting, Connected to the connection callback.
C6_CallbackSequence ==
    \A c \in Callers :
        (Returned(c) /\ scenario.caller = c /\ proc[c].ret = "true")
        => scenario.log = <<CONNECTING, CONNECTED>>

\* The lone command has connected, written and returned true.
C6_LoneCommandDone ==
    \E c \in Callers :
        /\ Returned(c) /\ scenario.caller = c /\ proc[c].ret = "true"
        /\ proc[c].wrote /\ proc[c].resolved.result = "true"

\* C7: every call of write_gatt_char, retries included, is made in state
\* Connected.
C7_WriteWhileConnected ==
    last_write.cmd # "none" => last_write.state = CONNECTED

\* C8: the state does not remain Connecting: once no coroutine is left to run,
\* it is Connected or Disconnected.
C8_ConnectingResolves ==
    Quiescent => connection_type # CONNECTING

\* C9: when establish_connection fails, a caller waiting on that attempt gets
\* false, no exception, and the state is Disconnected.
C9_FailureIsFalse ==
    \A c \in Callers :
        (/\ Returned(c)
         /\ proc[c].resolved.result \in {"slots", "error"}
         /\ ~proc[c].resolved.established)
        => (proc[c].ret = "false" /\ connection_type = DISCONNECTED)

\* C10: once a connect operation has completed and the coroutines awaiting it
\* have resumed, _connection_task is None.
C10_HandleCleared ==
    (connection_task # None /\ result[connection_task] # "none")
    => \E p \in Procs : proc[p].pc = "join" /\ proc[p].joined = connection_task

\* C11: a caller that awaited a connect operation which disconnect() cancelled
\* in flight gets false from connect() and its command returns false, with no
\* exception; and a caller is not left waiting for an operation that has ended.
C11_CancelledIsFalse ==
    /\ \A c \in Callers :
           proc[c].resolved.cancelled
           => /\ proc[c].conn = "false"
              /\ proc[c].pc = "done" /\ proc[c].ret = "false"
    /\ \A c \in Callers :
           (proc[c].pc = "join" /\ result[proc[c].joined] # "none")
           => \E i \in DOMAIN ready : ready[i] = c

\* A caller has returned false from an operation that disconnect() cancelled.
C11_CancelledCaller ==
    \E c \in Callers :
        /\ Returned(c) /\ proc[c].resolved.cancelled
        /\ proc[c].resolved.result = "cancelled" /\ proc[c].ret = "false"

\* A call of disconnect(), by a caller or by _disconnect_later, has returned.
Disconnected(p) ==
    /\ p \in Callers \cup {TimerProc}
    /\ proc[p].pc = "done"
    /\ proc[p].op \in {"disconnect", "_disconnect_later"}

\* C12: when disconnect() returns, and the timer was not scheduled anew while it
\* ran, no idle-disconnect timer is scheduled.
C12_NoTimerAfterDisconnect ==
    \A p \in Procs :
        (Disconnected(p) /\ ~proc[p].refreshed) => ~timer_pending

\* C13: when disconnect() returns after closing the session the device held, that
\* session is closed, no session is held, and the state is Disconnected, as told
\* to the connection callback.
C13_DisconnectedAfterDisconnect ==
    \A p \in Procs :
        (Disconnected(p) /\ proc[p].io # None)
        => /\ link[proc[p].io] = "down"
           /\ current_bleak_client = None
           /\ connection_type = DISCONNECTED
           /\ reported = DISCONNECTED

\* disconnect() was called on a connected device and has returned.
C13_SessionClosed ==
    \E c \in Callers :
        /\ Disconnected(c) /\ proc[c].io # None
        /\ phase[proc[c].io] = "ready"

\* C14: whenever the link of a session goes down, the state becomes Disconnected
\* and the connection callback is told so.
C14_LinkLossReported ==
    [][\A k \in Tasks :
          (link[k] = "up" /\ link'[k] = "down")
          => (connection_type' = DISCONNECTED /\ reported' = DISCONNECTED)]_vars

\* The deadline a refresh with the timeout of the last call asks for.
Asked == now + (IF last_call.timeout = None THEN SETTING_DISCONNECT_TIME
                ELSE last_call.timeout)

\* C15: a refresh without force changes nothing when a timer is scheduled with
\* a deadline later than now + timeout; otherwise it leaves exactly one timer
\* scheduled, at now + timeout.
C15_UnforcedRefresh ==
    (last_call.op = "refresh" /\ ~last_call.force)
        => IF last_call.before.timer_pending
              /\ last_call.before.timer_deadline > Asked
           THEN Timer = last_call.before
           ELSE timer_pending /\ timer_deadline = Asked

\* The last call was a refresh with force: an explicit one, or the one a
\* calibration blind makes when a notification ends its calibration (cover.py,
\* line 574).
Forced ==
    \/ last_call.op = "refresh" /\ last_call.force
    \/ /\ last_call.op = "notification"
       /\ cover = "calibration"
       /\ last_call.calibration_type = "calibrating"
       /\ calibration_type # "calibrating"

\* C16: a refresh with force always leaves one timer scheduled at
\* now + timeout, also when that is earlier than the deadline before; and a
\* deadline, recorded or scheduled, moves earlier only by a refresh with force.
C16_ForcedRefresh ==
    /\ (last_call.op = "refresh" /\ last_call.force)
           => /\ disconnect_timer /\ timer_pending
              /\ timer_deadline = Asked /\ disconnect_time = Asked
    /\ (last_call.before.disconnect_timer
        /\ disconnect_time < last_call.before.disconnect_time) => Forced
    /\ (last_call.before.timer_pending /\ timer_pending
        /\ timer_deadline < last_call.before.timer_deadline) => Forced

\* An explicit refresh with force has moved the deadline of a pending timer
\* earlier.
C16_MovedEarlier ==
    /\ last_call.op = "refresh" /\ last_call.force
    /\ last_call.before.timer_pending /\ timer_pending
    /\ timer_deadline < last_call.before.timer_deadline

\* C17: the idle teardown is live: in every reachable state where the device
\* is Connected and no coroutine is left to run, an idle timer is pending (so
\* that with no further call it fires, closes the session and sets
\* Disconnected).
C17_ConnectedHasTimer ==
    (Quiescent /\ connection_type = CONNECTED) => timer_pending

\* C18 as stated: a notification of any kind leaves the deadline, the
\* scheduled timer, the state and the connect handle unchanged.
C18_NotificationChangesNothing ==
    [][last_call'.op = "notification"
           => UNCHANGED <<disconnect_time, disconnect_timer, timer_pending,
                          timer_deadline, connection_type, connection_task>>
      ]_<<vars, tvars>>

\* The notification delivered last ends the calibration of a calibration
\* blind: it is a well-formed position or status message for a blind that was
\* calibrating,
\* and it reports the end positions set or finds the blind not moving.
EndsCalibration(call, blind) ==
    /\ call.op = "notification" /\ ~call.malformed
    /\ blind = "calibration"
    /\ startswith(call.kind, PERCENT) \/ startswith(call.kind, STATUS)
    /\ call.calibration_type = "calibrating"
    /\ call.up \/ call.running_type \in {"none", "still"}

\* C18, amended: a notification leaves the state and the connect handle
\* unchanged; it leaves the deadline and the timer unchanged unless it ends the
\* calibration of a calibration blind, and then exactly one timer is scheduled,
\* at now + SETTING_DISCONNECT_TIME.
C18_NotificationFrame ==
    [][last_call'.op = "notification"
           => /\ UNCHANGED <<connection_type, connection_task>>
              /\ IF EndsCalibration(last_call', cover)
                 THEN /\ disconnect_timer' /\ timer_pending'
                      /\ timer_deadline' = now + SETTING_DISCONNECT_TIME
                      /\ disconnect_time' = now + SETTING_DISCONNECT_TIME
                 ELSE UNCHANGED <<disconnect_time, disconnect_timer,
                                  timer_pending, timer_deadline>>
      ]_<<vars, tvars>>

\* A notification has ended a calibration and moved the deadline of the
\* pending timer earlier.
C18_CalibrationEnded ==
    /\ EndsCalibration(last_call, cover)
    /\ calibration_type = "calibrated"
    /\ last_call.before.timer_pending /\ timer_pending
    /\ timer_deadline < last_call.before.timer_deadline

\* C19: a command whose every write fails makes exactly
\* SETTING_MAX_COMMAND_ATTEMPTS attempts and returns false; a command that
\* returns true after a write made one attempt more than the writes that
\* failed, at most SETTING_MAX_COMMAND_ATTEMPTS.
C19_ExhaustedIsFalse ==
    \A c \in Callers :
        (Returned(c) /\ proc[c].op = "command")
            => /\ proc[c].tries = SETTING_MAX_COMMAND_ATTEMPTS
                   => /\ proc[c].writes = SETTING_MAX_COMMAND_ATTEMPTS
                      /\ proc[c].ret = "false"
               /\ (proc[c].ret = "true" /\ proc[c].wrote)
                   => /\ proc[c].writes = proc[c].tries + 1
                      /\ proc[c].writes <= SETTING_MAX_COMMAND_ATTEMPTS

\* C20: every write attempt, retries included, carries a payload built for
\* that attempt.
C20_PayloadPerAttempt ==
    \A p \in Procs :
        proc[p].pc = "write" => proc[p].built = proc[p].tries + 1

\* C21: command writes are serialized per device: at most one write_gatt_char
\* of the device is in flight at any time.
C21_OneWriteInFlight ==
    Cardinality({p \in Procs : proc[p].pc = "write"}) <= 1

\* C22: when disconnect() runs while a write of a command is in flight, the
\* command makes no further write attempt and returns false.
C22_DisconnectAbortsSend ==
    \A c \in Callers :
        proc[c].cut > 0
            => /\ proc[c].writes = proc[c].cut
               /\ Returned(c) => proc[c].ret = "false"

\* The cover fields a notification may change are as the call found them.
CoverUntouched ==
    /\ Timer = last_call.before
    /\ calibration_type = last_call.calibration_type
    /\ running_type = last_call.running_type

\* C23: prefixes are matched longest first: a well-formed message that starts
\* with the RUNNING prefix takes the running branch and goes to the running
\* callback, never to the position callback.
C23_LongestFirst ==
    (/\ last_call.op = "notification" /\ last_call.raised = "none"
     /\ cover # "none"
     /\ startswith(last_call.kind, RUNNING))
        => /\ last_call.branch = "running"
           /\ last_call.callback = "running"

\* C24: a notification that decrypts to a message with none of the known
\* prefixes calls no callback, changes nothing and raises nothing.
C24_UnknownIgnored ==
    (/\ last_call.op = "notification" /\ last_call.kind # <<>>
     /\ \A prefix \in {PERCENT, RUNNING, READY, STATUS} :
            ~startswith(last_call.kind, prefix))
        => /\ last_call.callback = "none"
           /\ last_call.raised = "none"
           /\ CoverUntouched

\* A complete message of unknown type has been delivered to a calibration
\* blind that is calibrating and not moving (a position message would end the
\* calibration).
C24_UnknownDelivered ==
    /\ last_call.op = "notification"
    /\ startswith(last_call.kind, Unknown)
    /\ Len(last_call.kind) = FullLength
    /\ cover = "calibration"
    /\ last_call.calibration_type = "calibrating"
    /\ last_call.running_type = "still"
    /\ last_call.before.timer_pending

\* C25: a malformed notification is dropped: the handler raises nothing, calls
\* no callback and changes nothing.
C25_MalformedDropped ==
    (last_call.op = "notification" /\ last_call.malformed)
        => /\ last_call.raised = "none"
           /\ last_call.callback = "none"
           /\ CoverUntouched

\* The stop requests made so far, and the number of device commands of a
\* kind called so far.
Pressed == {r \in Stops : stop_request[r].pc # "idle"}

Count(command) == Cardinality({i \in DOMAIN issued : issued[i] = command})

\* C26: two stop requests within the double-click time of each other result
\* in exactly one FAVORITE and no STOP, also when the first is still in
\* progress as the second arrives.
C26_DoubleClickIsFavorite ==
    (/\ Pressed = {1, 2}
     /\ stop_request[2].time - stop_request[1].time < SETTING_DOUBLE_CLICK_TIME)
        => Count("FAVORITE") = 1 /\ Count("STOP") = 0

\* C27: a stop request at least the double-click time after every request
\* before it is a STOP; and of three stop requests within the double-click
\* time exactly one is a FAVORITE, the third being a STOP that, once it has
\* returned, starts a new double-click window.
C27_FoldOnce ==
    /\ \A r \in Pressed :
           (\A q \in Pressed : q < r =>
                stop_request[r].time - stop_request[q].time
                    >= SETTING_DOUBLE_CLICK_TIME)
               => issued[r] = "STOP"
    /\ (/\ {1, 2, 3} \subseteq Pressed
        /\ stop_request[3].time - stop_request[1].time < SETTING_DOUBLE_CLICK_TIME)
           => /\ Cardinality({i \in {1, 2, 3} : issued[i] = "FAVORITE"}) = 1
              /\ issued[3] = "STOP"

\* The pcs at which a coroutine awaits the transport.
Transport == {"establish", "notify", "write", "close"}

\* C28: percentage(p) with p outside 0..100 is rejected before any transport
\* activity: the call ends at once with the assertion failed, nothing is
\* written, no connect is started, and the state, the timer and the connect
\* handle are unchanged.
C28_PercentageRejected ==
    [][\A c \in Callers :
           (/\ proc[c].pc = "idle" /\ proc'[c].cmd = "PERCENT"
            /\ proc'[c].arg < 0 \/ proc'[c].arg > 100)
               => /\ proc'[c].pc = "done"
                  /\ proc'[c].raised = "AssertionError"
                  /\ ~proc'[c].wrote /\ proc'[c].joined = None
                  /\ \A p \in Procs : proc'[p].pc \in Transport
                                          => proc'[p].pc = proc[p].pc
                  /\ UNCHANGED <<connection_type, reported, connection_task,
                                 current_bleak_client, disconnect_timer,
                                 timer_pending>>
      ]_<<vars, tvars, svars>>

\* percentage(p) with p > 100 has been rejected on a connected device whose
\* idle timer is pending.
C28_RejectedWhileConnected ==
    \E c \in Callers :
        /\ proc[c].cmd = "PERCENT" /\ proc[c].arg > 100
        /\ proc[c].pc = "done" /\ proc[c].raised = "AssertionError"
        /\ tz /\ connection_type = CONNECTED /\ timer_pending

\* C29: percentage_tilt(p) with p outside 0..100 is rejected before any write:
\* every SET_ANGLE payload written has an angle field of two hexadecimal
\* digits with a value in 0..180.
C29_AngleInRange ==
    \A p \in Procs :
        (proc[p].pc = "write" /\ proc[p].cmd = "ANGLE")
            => /\ proc[p].arg \in 0..100
               /\ Len(proc[p].prefix) = Len(COMMAND_ANGLE) + 4
               /\ int_16(SubSeq(proc[p].prefix, Len(COMMAND_ANGLE) + 3,
                                Len(proc[p].prefix))) <= 180

\* C30: while no timezone is set, no coroutine awaits the transport and no
\* session is held, and a command with a valid parameter ends with
\* TimezoneNotSetException.
C30_FailsBeforeTransport ==
    ~tz => /\ \A p \in Procs : proc[p].pc \notin Transport
           /\ current_bleak_client = None
           /\ \A c \in Callers :
                  (/\ proc[c].pc = "done" /\ proc[c].op = "command"
                   /\ proc[c].arg \in 0..100)
                      => proc[c].raised = "TimezoneNotSetException"

\* C31 as stated: once a timezone is set, get_time() gives exactly 14
\* hexadecimal characters for every date and time.
C31_FourteenHexCharacters ==
    (tz /\ time_hex # NoTime)
        => /\ time_hex.raised = "none"
           /\ Len(time_hex.value) = 14
           /\ fromhex(time_hex.value)

\* C31, amended: once a timezone is set, get_time() gives exactly 16
\* hexadecimal characters for every date and time: two for each of year,
\* month, day, hour, minute and second, and four for the millisecond.
C31_SixteenHexCharacters ==
    (tz /\ time_hex # NoTime)
        => /\ time_hex.raised = "none"
           /\ Len(time_hex.value) = 16
           /\ fromhex(time_hex.value)
           /\ int_16(SubSeq(time_hex.value, 3, 4)) = moment.month
           /\ int_16(SubSeq(time_hex.value, 13, 16)) = moment.microsecond \div 1000

\* get_time() has given the timestamp of a moment whose month takes one
\* hexadecimal digit and whose millisecond, 999, takes three.
C31_PaddedFields ==
    /\ tz /\ time_hex.raised = "none"
    /\ moment.month = 1 /\ moment.microsecond = 999999
    /\ Len(time_hex.value) = 16
    /\ SubSeq(time_hex.value, 3, 4) = <<"0", "1">>
    /\ SubSeq(time_hex.value, 13, 16) = <<"0", "3", "e", "7">>

\* C32: the conversions round-trip within 1: for every angle a in 0..180 the
\* angle of the percentage of a differs from a by at most 1, and for every
\* percentage p in 0..100 the percentage of the angle of p differs from p by at
\* most 1.
C32_RoundTrip ==
    conversion.of \in {"angle", "percent"}
        => /\ conversion.back - conversion.from <= 1
           /\ conversion.from - conversion.back <= 1

\* An angle has come back from the round trip changed by 1.
C32_OffByOne ==
    /\ conversion.of = "angle"
    /\ conversion.back = conversion.from + 1

\* C33: on every transition of the device to Disconnected the cover entity
\* has its position and tilt unknown and is neither opening nor closing, and
\* the battery and speed sensors that are registered were given None.
C33_DisconnectClears ==
    (entity_call.op = "connection" /\ reported = DISCONNECTED)
        => /\ connection_type = DISCONNECTED
           /\ entity.connection_type = DISCONNECTED
           /\ entity.current_cover_position = NoValue
           /\ entity.current_cover_tilt_position = NoValue
           /\ entity.is_opening = "false" /\ entity.is_closing = "false"
           /\ entity.battery_callback => entity.battery = NoValue
           /\ entity.speed_callback => entity.speed = NoValue

\* The device went to Disconnected while the entity showed a position, a
\* tilt, a movement, a battery value and a speed.
C33_ClearedKnownState ==
    /\ entity_call.op = "connection" /\ reported = DISCONNECTED
    /\ entity_call.before.current_cover_position \in 0..100
    /\ entity_call.before.current_cover_tilt_position \in 0..100
    /\ entity_call.before.is_opening = "true"
    /\ entity_call.before.battery_callback
    /\ entity_call.before.battery \in BatteryBytes
    /\ entity_call.before.speed \in SpeedLevels
    /\ entity.battery = NoValue

\* C34: a motion command that was not executed, because the device command
\* returned false or failed in any other way, leaves the entity not moving:
\* once the handler has finished the running state is STILL.
C34_FailedCommandIsStill ==
    (entity_command.pc = "done" /\ entity_command.res # "true")
        => /\ entity.running_type = STILL
           /\ entity.is_opening # "true" /\ entity.is_closing # "true"

\* C36: the connect sequence never waits on itself: a _connect task never
\* awaits a connect task from inside its SET_KEY or STATUS_QUERY send, neither
\* the shared task it runs in nor any other, also when the link reports
\* not-connected during the initialization.
C36_NoSelfAwait ==
    \A t \in Tasks : proc[t].pc # "join"

\* C37: an idle timer scheduled during one session never acts on a later
\* one: when the timer fires while a connect attempt is establishing its
\* session (the timer was then scheduled for an earlier session), the attempt
\* is not cancelled and stays the shared connect operation.
C37_OldTimerSpares ==
    [][\A t \in Tasks :
          (/\ proc[TimerProc].pc = "idle"
           /\ proc'[TimerProc].pc \in {"close", "done"}
           /\ connection_task = t /\ proc[t].pc = "establish" /\ ~must_cancel[t])
          => (connection_task' = t /\ ~must_cancel'[t])
      ]_<<vars, tvars, svars, xvars>>

\* C39: at most one idle-disconnect timer is pending at any time: every call
\* that schedules a timer first cancels the one scheduled before, and the
\* timer pending is the one the device holds.
C39_OnePendingTimer ==
    /\ pending_timers <= 1
    /\ pending_timers = 1 <=> timer_pending

\* A refresh has replaced a pending timer by one with another deadline.
C39_TimerReplaced ==
    /\ last_call.op = "refresh"
    /\ last_call.before.timer_pending /\ last_call.before.pending_timers = 1
    /\ timer_pending /\ timer_deadline # last_call.before.timer_deadline
    /\ pending_timers = 1

\* C38: the connection callback is never told Disconnected twice in a row
\* without a Connecting in between: each teardown tells it exactly once.
C38_DisconnectedOnce ==
    ~told_twice

\* C35: the device is never wedged: a command made alone on a transport that
\* works, from whatever state the device was left in, is written and returns
\* true, and it is not left waiting when no coroutine can run and none
\* awaits the transport.
C35_LoneCommandSucceeds ==
    \A c \in Callers :
        lone = c
            => /\ proc[c].pc = "done" => (proc[c].ret = "true" /\ proc[c].wrote)
               /\ (/\ ready = <<>>
                   /\ \A p \in Procs : proc[p].pc \notin Transport \cup {"start"})
                  => proc[c].pc \in {"done", "gone"}

====
